---- MODULE Spec2Model ----
(***************************************************************************)
(* Model of pmda_tool_with_settings.py: the date-driven collection run     *)
(* (ScrapeTab / scrape_date / fetch_approval_number), the bulk download    *)
(* run (DownloadTab), and the pure helpers they use.                       *)
(*                                                                         *)
(* A Python string is a sequence of tokens (each token a TLA+ string that  *)
(* stands for one character or for a run of characters that the code never *)
(* looks inside).  "/" and " " are always tokens of their own.             *)
(***************************************************************************)
EXTENDS Integers, Sequences, FiniteSets, TLC

\* ------------------------------------------------------------------ bounds
MaxDates  == 2    \* calendar days a collection run may span
MaxTables == 2    \* <table> elements the listing pages of one run hold in all
MaxRows   == 2    \* <tr> elements the listing pages of one run hold in all
MaxCsvRows == 2   \* data rows of the table a download run reads
\* the same four, for the runs of the two tabs side by side (SpecApp)
AppMaxDates   == 1
AppMaxTables  == 1
AppMaxRows    == 1
AppMaxCsvRows == 1
MaxFilterRows == 2   \* rows of the table handed to the target filter on its own
MaxCols       == 2   \* header names of an allow-list file
MaxHospRows   == 1   \* data rows of an allow-list file
MaxNameLen    == 2   \* characters of a freely chosen productName
MaxSegments   == 4   \* "/"-separated segments of a link target

\* --------------------------------------------------------- string helpers
EMPTY == << >>

\* s[from..] / s[..to] of Python
Drop(s, n) == SubSeq(s, n + 1, Len(s))
Take(s, n) == SubSeq(s, 1, IF n < Len(s) THEN n ELSE Len(s))

IsPrefix(p, s) == Len(p) <= Len(s) /\ SubSeq(s, 1, Len(p)) = p

\* str.replace(old, ""): every non-overlapping occurrence of old is removed,
\* scanning left to right
RECURSIVE Remove(_, _)
Remove(s, old) ==
    IF s = EMPTY \/ old = EMPTY THEN s
    ELSE IF IsPrefix(old, s) THEN Remove(Drop(s, Len(old)), old)
    ELSE <<Head(s)>> \o Remove(Tail(s), old)

\* str.lstrip(ch) / str.rstrip(ch) / str.strip(ch) for a one-token set chs
RECURSIVE LStrip(_, _)
LStrip(s, chs) ==
    IF s # EMPTY /\ Head(s) \in chs THEN LStrip(Tail(s), chs) ELSE s

RECURSIVE RStrip(_, _)
RStrip(s, chs) ==
    IF s # EMPTY /\ s[Len(s)] \in chs THEN RStrip(SubSeq(s, 1, Len(s) - 1), chs) ELSE s

Strip(s, chs) == RStrip(LStrip(s, chs), chs)

WHITESPACE == {" "}

\* str.split(sep): a sequence of strings, never empty ("".split("/") = [""])
RECURSIVE SplitAcc(_, _, _)
SplitAcc(s, sep, cur) ==
    IF s = EMPTY THEN <<cur>>
    ELSE IF Head(s) = sep THEN <<cur>> \o SplitAcc(Tail(s), sep, EMPTY)
    ELSE SplitAcc(Tail(s), sep, Append(cur, Head(s)))

Split(s, sep) == SplitAcc(s, sep, EMPTY)

\* ------------------------------------------------------ program constants
\* the source's literals are Japanese; each is written here as an ASCII token
SECTION_LISTED  == "Listed"     \* U+63B2 U+8F09
SECTION_DELETED == "Deleted"    \* U+524A U+9664
NONE == "None"

YGO_PACK_PREFIX == <<"ygo", "/", "pack">>
YGO_PDF_PREFIX  == <<"ygo", "/", "pdf">>

\* a float, in tenths of a second; float("nan") is a float of its own
Seconds(tenths) == [kind |-> "num", v |-> tenths]
NAN == [kind |-> "nan", v |-> 0]

MIN_WAIT_TIME == 0
MAX_WAIT_TIME == 100

DEFAULT_SETTINGS ==
    [ base_url        |-> <<"https:", "/", "/", "www.info.pmda.go.jp", "/", "ysearch", "/", "tenpulist.jsp?DATE=">>,
      detail_base_url |-> <<"https:", "/", "/", "www.info.pmda.go.jp">>,
      default_wait_time         |-> Seconds(5),
      scrape_wait_time          |-> Seconds(3),
      approval_number_wait_time |-> Seconds(5) ]

VARIABLES
    app_settings,     \* the global Settings instance
    cfg_file,         \* what CONFIG_FILE holds, NO_CONFIG while it does not exist
    watched,          \* the observations a specification keeps, fixed by its Init
    \* ---- ScrapeTab (the controlling context's side)
    s_is_running,     \* ScrapeTab.is_running, the cancellation flag
    s_run_button,     \* "normal" | "disabled"
    s_cancel_button,  \* "normal" | "disabled"
    s_workers,        \* number of live scrape_thread threads
    \* ---- scrape_thread / _collect_data / scrape_date locals
    s_pc,             \* position of the worker
    s_dates,          \* the list built by generate_date_range
    s_args,           \* the arguments run_scrape hands to the thread
    s_i,              \* index (1-based) of the date being processed
    s_all_results,    \* _collect_data's all_results
    s_results,        \* scrape_date's results
    s_current_section,\* scrape_date's current_section
    s_prev_h2,        \* table.find_previous('h2'): <<text>>, or << >> when there is none
    s_tables,         \* tables visited so far in this run
    s_rows,           \* rows visited so far in this run
    s_row,            \* the row whose enrichment is pending
    s_numbers,        \* (approval_no, certification_no) returned by fetch_approval_number
    s_enrich,         \* how that call ended: "underived" | "failed" | "answered"
    \* ---- observations of the run
    s_returned,       \* what scrape_date returned, one entry per call
    s_cancel_at,      \* where the worker stood when cancel was first requested
    s_loop_end,       \* how _collect_data's loop ended: "exhausted" | "break"
    s_cut_short,      \* whether a checkpoint of scrape_date returned early
    s_failed,         \* indices of the dates whose listing fetch or parse raised
    s_config,         \* the settings at the start of the run, and the values the run has read
    s_saves,          \* calls of save_results in this run
    s_answer,         \* the save-confirmation dialog: NONE (not shown) | "pending" | "yes" | "no"
    s_handoff,        \* whether set_download_csv_path was called
    s_reported,       \* what the run logged at its end: "interrupted" | "completed"
    \* ---- DownloadTab (the controlling context's side)
    d_is_running,     \* DownloadTab.is_running, the cancellation flag
    d_run_button,     \* "normal" | "disabled"
    d_cancel_button,  \* "normal" | "disabled"
    d_workers,        \* number of live download_thread threads
    d_files,          \* names of the files in the pdf directory
    d_earlier,        \* observation: cancel was requested in an earlier download run
    \* ---- download_thread / _download_files locals
    d_pc,             \* position of the worker
    d_args,           \* the arguments run_download hands to the thread
    d_targets,        \* the list built by _load_and_filter_targets
    d_i,              \* index (1-based) of the target being handled
    d_tally,          \* [success, fail, skipped]
    \* ---- observations of the run
    d_outcomes,       \* per target handled so far: "success" | "fail" | "skipped" | "no_id"
    d_cancel_at,      \* where the worker stood when cancel was first requested
    d_reported,       \* the tallies the run reported at its end, with the kind of report
    d_loop_end,       \* how _download_files' loop ended: "exhausted" | "break"
    d_delays,         \* per-file delays the run has awaited
    \* ---- a helper function called on its own
    f_in,             \* its arguments
    f_done,           \* whether it has been called
    f_out             \* what it returned

s_tab    == <<s_is_running, s_run_button, s_cancel_button, s_workers>>
s_locals == <<s_pc, s_dates, s_args, s_i, s_all_results, s_results,
              s_current_section, s_prev_h2, s_tables, s_rows, s_row, s_numbers, s_enrich>>
s_obs    == <<s_returned, s_cancel_at, s_loop_end, s_cut_short, s_failed, s_config, s_saves, s_answer, s_handoff,
              s_reported>>
s_vars   == <<s_tab, s_locals, s_obs>>

d_tab    == <<d_is_running, d_run_button, d_cancel_button, d_workers>>
d_locals == <<d_pc, d_args, d_targets, d_i, d_tally>>
d_obs    == <<d_outcomes, d_cancel_at, d_reported, d_loop_end, d_delays>>
d_vars   == <<d_tab, d_files, d_earlier, d_locals, d_obs>>

f_vars   == <<f_in, f_done, f_out>>

not_scrape   == <<app_settings, cfg_file, watched, d_vars, f_vars>>
not_download == <<app_settings, cfg_file, watched, s_vars, f_vars>>

vars == <<app_settings, cfg_file, watched, s_vars, d_vars, f_vars>>

\* ---------------------------------------------------------------- Settings
NO_CONFIG == [exists |-> FALSE]

\* float(text) of lines 937-938: what the entry text parses to
NOT_A_NUMBER == [kind |-> "text", v |-> 0]

\* wait < MIN_WAIT_TIME or wait > MAX_WAIT_TIME, as IEEE floats compare:
\* every comparison with nan is false
OutOfRange(wait) ==
    wait.kind = "num" /\ (wait.v < MIN_WAIT_TIME \/ wait.v > MAX_WAIT_TIME)

\* Settings.save, lines 110-117: the file is written, unless writing fails
SettingsSave(settings, written) ==
    IF written THEN [exists |-> TRUE, data |-> settings] ELSE cfg_file

\* Settings.load, lines 96-108: the values of the file override the defaults
SettingsLoad(file) == IF file.exists THEN file.data ELSE DEFAULT_SETTINGS

\* save_settings, lines 934-967
SaveSettings(wait_text, scrape_text, base_url, detail_url) ==
    /\ IF \/ wait_text = NOT_A_NUMBER \/ scrape_text = NOT_A_NUMBER   \* ValueError
          \/ OutOfRange(wait_text)                                   \* lines 940-942
          \/ OutOfRange(scrape_text)                                 \* lines 944-946
       THEN UNCHANGED <<app_settings, cfg_file>>
       ELSE /\ app_settings' = [app_settings EXCEPT
                                   !.default_wait_time = wait_text,
                                   !.scrape_wait_time = scrape_text,
                                   !.base_url = base_url,
                                   !.detail_base_url = detail_url]
            /\ \E written \in BOOLEAN : cfg_file' = SettingsSave(app_settings', written)
    /\ UNCHANGED <<watched, s_vars, d_vars, f_vars>>

\* reset_settings, lines 969-990, the confirmation answered with yes
ResetSettings ==
    /\ app_settings' = DEFAULT_SETTINGS
    /\ \E written \in BOOLEAN : cfg_file' = SettingsSave(app_settings', written)
    /\ UNCHANGED <<watched, s_vars, d_vars, f_vars>>

\* ------------------------------------------------------------ URL Deriver
\* "in" on strings: sub occurs in s
RECURSIVE Contains(_, _)
Contains(s, sub) ==
    IF IsPrefix(sub, s) THEN TRUE
    ELSE IF s = EMPTY THEN FALSE
    ELSE Contains(Tail(s), sub)

HasYgoPackShape(detail_url) ==
    LET path  == Remove(detail_url, app_settings.detail_base_url)
        parts == Split(Strip(path, {"/"}), "/")
        pre   == Split(YGO_PACK_PREFIX, "/")
    IN  Len(parts) >= 4 /\ parts[1] = pre[1] /\ parts[2] = pre[2]

convert_detail_url_to_pdf(detail_url) ==
    IF detail_url = EMPTY THEN EMPTY
    ELSE LET path  == Remove(detail_url, app_settings.detail_base_url)
             parts == Split(Strip(path, {"/"}), "/")
         IN  IF HasYgoPackShape(detail_url)
             THEN app_settings.detail_base_url \o <<"/">> \o YGO_PDF_PREFIX \o <<"/">>
                  \o parts[3] \o <<"_">> \o parts[4] \o <<"/">>
             ELSE EMPTY

convert_detail_url_to_body_url_CompanyId(detail_url) ==
    IF detail_url = EMPTY THEN EMPTY
    ELSE LET path  == Remove(detail_url, app_settings.detail_base_url)
             parts == Split(Strip(path, {"/"}), "/")
         IN  IF HasYgoPackShape(detail_url)
             THEN RStrip(detail_url, {"/"}) \o <<"/">> \o parts[3] \o <<"?view=body">>
             ELSE EMPTY

convert_detail_url_to_body_url(detail_url) ==
    IF detail_url = EMPTY THEN EMPTY
    ELSE LET path  == Remove(detail_url, app_settings.detail_base_url)
             parts == Split(Strip(path, {"/"}), "/")
         IN  IF HasYgoPackShape(detail_url)
             THEN RStrip(detail_url, {"/"}) \o <<"/">> \o parts[4] \o <<"?view=body">>
             ELSE EMPTY

\* -------------------------------------------------- listing page contents
LISTED_MARK  == "[keisai-bun]"    \* the marker looked for in a heading (U+63B2 U+8F09 U+5206)
DELETED_MARK == "[sakujo-bun]"    \* U+524A U+9664 U+5206
HEADER_TOKEN == <<"[hanbaimei]">> \* the header cell's text (U+8CA9 U+58F2 U+540D)
MAKER_PREFIX == "[seizou-hanbai/]" \* the prefix removed from the company cell

NO_H2 == << >>

\* texts an <h2> may have
H2Texts ==
    { <<LISTED_MARK>>, <<"x", DELETED_MARK>>, <<"notice">>, <<DELETED_MARK, LISTED_MARK>> }

\* a <tr>: its number of <td> cells, whether cell 0 holds an <a>, the stripped
\* text of the link (or of the cell), and the link's href
Rows ==
    { [cells |-> 3, link |-> TRUE,  text |-> <<"P">>, href |-> <<"/", "ygo", "/", "pack", "/", "123", "/", "456">>],
      [cells |-> 3, link |-> TRUE,  text |-> <<"P">>, href |-> <<"/", "x">>],
      [cells |-> 3, link |-> TRUE,  text |-> EMPTY,   href |-> <<"/", "ygo", "/", "pack", "/", "123", "/", "456">>],
      [cells |-> 3, link |-> FALSE, text |-> <<"P">>, href |-> EMPTY],
      [cells |-> 3, link |-> FALSE, text |-> HEADER_TOKEN, href |-> EMPTY],
      [cells |-> 2, link |-> FALSE, text |-> <<"P">>, href |-> EMPTY] }

COMPANY_CELL == <<MAKER_PREFIX, "ACME">>
REASON_CELL  == <<"recall">>

\* what the body page's two labelled blocks yield
Numbers ==
    { [approval_no |-> EMPTY,      certification_no |-> EMPTY],
      [approval_no |-> <<"A100">>, certification_no |-> EMPTY] }

NO_NUMBERS == [approval_no |-> EMPTY, certification_no |-> EMPTY]
NO_ROW     == [product_name |-> EMPTY, detail_url |-> EMPTY, company |-> EMPTY,
               reason |-> EMPTY, pdf_url |-> EMPTY]
NO_ARGS    == [start |-> 0, end |-> 0, fetch_nums |-> FALSE]
NOT_CANCELLED == [requested |-> FALSE, between |-> FALSE, done |-> 0, later |-> 0]

\* a network request of the run ends: it counts if cancel was requested before
RequestEnds(cancel_at) ==
    IF cancel_at.requested /\ "requests_after_cancel" \in watched
    THEN [cancel_at EXCEPT !.later = @ + 1] ELSE cancel_at

\* --------------------------------------------------------- Listing Fetcher
\* lines 213-218: the section a table is given
ClassifySection(prev_h2, current_section) ==
    IF prev_h2 # NO_H2
    THEN IF Contains(prev_h2[1], <<LISTED_MARK>>) THEN SECTION_LISTED
         ELSE IF Contains(prev_h2[1], <<DELETED_MARK>>) THEN SECTION_DELETED
         ELSE current_section
    ELSE current_section

\* lines 231-243: the fields read from a row of at least 3 cells
RowFields(row) ==
    LET detail_url == IF row.link THEN app_settings.detail_base_url \o row.href ELSE EMPTY
    IN  [ product_name |-> row.text,
          detail_url   |-> detail_url,
          company      |-> Remove(COMPANY_CELL, <<MAKER_PREFIX>>),
          reason       |-> REASON_CELL,
          pdf_url      |-> convert_detail_url_to_pdf(detail_url) ]

\* line 247 without its section test
WantsEnrichment_AnySection(fetch_nums, detail_url, current_section) ==
    fetch_nums /\ detail_url # EMPTY

\* line 247
WantsEnrichment(fetch_nums, detail_url, current_section) ==
    fetch_nums /\ detail_url # EMPTY /\ current_section = SECTION_LISTED

\* line 256 without its header-token test
IsEmitted_HeaderToo(product_name) == product_name # EMPTY

\* line 256
IsEmitted(product_name) == product_name # EMPTY /\ product_name # HEADER_TOKEN

\* lines 256-267: results after the row has been handled
Emit(results, date_str, section, f, numbers) ==
    IF IsEmitted(f.product_name)
    THEN Append(results,
                [ date |-> date_str, section |-> section,
                  productName |-> f.product_name, companyName |-> f.company,
                  reason |-> f.reason,
                  approvalNumber |-> numbers.approval_no,
                  certificationNumber |-> numbers.certification_no,
                  detailUrl |-> f.detail_url, pdfUrl |-> f.pdf_url ])
    ELSE results

\* line 558
Extend(all_results, results) == all_results \o results

\* lines 526-533
RECURSIVE generate_date_range(_, _)
generate_date_range(start_date, end_date) ==
    IF start_date <= end_date
    THEN <<start_date>> \o generate_date_range(start_date + 1, end_date)
    ELSE << >>

\* ------------------------------------------------------------- ScrapeTab
\* the run button is left enabled while a worker runs
set_running_state_RunEnabled(is_running) ==
    IF is_running
    THEN [run_button |-> "normal", cancel_button |-> "normal"]
    ELSE [run_button |-> "normal", cancel_button |-> "disabled"]

\* lines 349-356
set_running_state(is_running) ==
    IF is_running
    THEN [run_button |-> "disabled", cancel_button |-> "normal"]
    ELSE [run_button |-> "normal", cancel_button |-> "disabled"]

\* cancel_task leaving the flag as it was
CancelledFlag_Unchanged == TRUE

\* line 360: the value cancel_task stores in the flag
CancelledFlag == FALSE

ScrapeDateLocalsCleared ==
    /\ s_results' = << >>
    /\ s_current_section' = NONE
    /\ s_prev_h2' = NO_H2
    /\ s_row' = NO_ROW
    /\ s_numbers' = NO_NUMBERS
    /\ s_enrich' = NONE

ScrapeObsCleared ==
    /\ s_returned' = << >>
    /\ s_cancel_at' = NOT_CANCELLED
    /\ s_loop_end' = NONE
    /\ s_cut_short' = FALSE
    /\ s_failed' = {}
    /\ s_saves' = 0
    /\ s_answer' = NONE
    /\ s_handoff' = FALSE
    /\ s_reported' = NONE

\* the settings a run reads while it goes: lines 200, 235 (141, 147, 154) and 561
NO_READS ==
    [start |-> << >>,
     used  |-> [base_url |-> {}, detail_base_url |-> {}, scrape_wait_time |-> {}]]

\* the worker reads app_settings.<key> at this step
ConfigRead(config, key) ==
    IF "config_reads" \in watched
    THEN [config EXCEPT !.used[key] = @ \cup {app_settings[key]}] ELSE config

\* the run starts with the flag as the run before left it
RunFlag_Kept(flag) == flag

\* lines 513 and 727: a run sets the flag when it starts
RunFlag(flag) == TRUE

\* run_scrape, lines 481-520; the button invokes it only while enabled (line 454)
RunScrape(date_ok, start, end, fetch_nums) ==
    /\ s_run_button = "normal"
    /\ IF ~date_ok \/ start > end
       THEN UNCHANGED vars                      \* lines 502-508
       ELSE /\ s_is_running' = RunFlag(s_is_running)
            /\ s_run_button' = set_running_state(TRUE).run_button
            /\ s_cancel_button' = set_running_state(TRUE).cancel_button
            /\ s_workers' = s_workers + 1
            /\ s_pc' = "start"
            /\ s_args' = [start |-> start, end |-> end, fetch_nums |-> fetch_nums]
            /\ s_dates' = << >>
            /\ s_i' = 0
            /\ s_all_results' = << >>
            /\ s_rows' = 0
            /\ s_tables' = 0
            /\ ScrapeDateLocalsCleared
            /\ ScrapeObsCleared
            /\ s_config' = [NO_READS EXCEPT !.start = app_settings]
            /\ UNCHANGED not_scrape

\* the worker is between two dates: before the loop head, or in the delay after a date
BetweenDates == s_pc \in {"start", "date_check", "sleep"}

\* cancel_scrape -> cancel_task, lines 522-524 and 358-361
CancelScrape ==
    /\ s_cancel_button = "normal"
    /\ s_is_running' = CancelledFlag
    /\ s_cancel_at' = IF s_cancel_at = NOT_CANCELLED
                      THEN [requested |-> TRUE, between |-> BetweenDates,
                            done |-> Len(s_returned), later |-> 0]
                      ELSE s_cancel_at
    /\ UNCHANGED <<not_scrape, s_run_button, s_cancel_button, s_workers, s_locals,
                   s_returned, s_loop_end, s_cut_short, s_failed, s_config, s_saves, s_answer, s_handoff, s_reported>>

\* scrape_thread, lines 587-591
S_ThreadStart ==
    /\ s_pc = "start"
    /\ \/ /\ s_dates' = generate_date_range(s_args.start, s_args.end)
          /\ s_i' = 1
          /\ s_pc' = "date_check"
       \/ /\ s_pc' = "error"                     \* os.makedirs raises
          /\ UNCHANGED <<s_dates, s_i>>
    /\ UNCHANGED <<not_scrape, s_tab, s_args, s_all_results, s_results,
                   s_current_section, s_prev_h2, s_tables, s_rows, s_row, s_numbers, s_enrich,
                   s_obs>>

\* _collect_data, lines 552-557: the loop head, up to the listing request
S_DateCheck ==
    /\ s_pc = "date_check"
    /\ IF s_i > Len(s_dates)
       THEN /\ s_loop_end' = "exhausted"
            /\ s_pc' = "complete"
            /\ UNCHANGED s_config
       ELSE IF ~s_is_running
       THEN /\ s_loop_end' = "break"
            /\ s_pc' = "complete"
            /\ UNCHANGED s_config
       ELSE /\ s_pc' = "fetch"
            /\ s_config' = ConfigRead(s_config, "base_url")    \* line 200
            /\ UNCHANGED s_loop_end
    /\ UNCHANGED <<not_scrape, s_tab, s_dates, s_args, s_i, s_all_results, s_results,
                   s_current_section, s_prev_h2, s_tables, s_rows, s_row, s_numbers, s_enrich,
                   s_returned, s_cancel_at, s_cut_short, s_failed, s_saves, s_answer, s_handoff, s_reported>>

\* the cancel_check handed to scrape_date lets the fetcher go on
cancel_check_Always == TRUE

\* line 557: the cancel_check handed to scrape_date
cancel_check == s_is_running

\* a failure of the listing request is not caught: the worker ends in error
AfterListingFailure_Raise == "error"

\* lines 269-272 and 558-561: the failure is caught and the date loop goes on
AfterListingFailure == "sleep"

\* a checkpoint that sees the stop hands back nothing
StoppedResults_Empty(results) == << >>

\* lines 227 and 250: a checkpoint that sees the stop returns results
StoppedResults(results) == results

\* scrape_date returns res: line 558 follows
ScrapeDateReturns(res, early, failed) ==
    /\ s_cut_short' = (s_cut_short \/ early)
    /\ s_failed' = IF failed THEN s_failed \cup {s_i} ELSE s_failed
    /\ s_config' = ConfigRead(s_config, "scrape_wait_time")   \* line 561
    /\ s_all_results' = Extend(s_all_results, res)
    /\ s_returned' = Append(s_returned, res)
    /\ s_pc' = IF failed THEN AfterListingFailure ELSE "sleep"
    /\ ScrapeDateLocalsCleared
    /\ UNCHANGED <<s_tables, s_rows>>

\* scrape_date, lines 205-210 and 269-272: the listing request ends
S_ListingResponse ==
    /\ s_pc = "fetch"
    /\ \/ /\ s_pc' = "tables"
          /\ UNCHANGED <<s_all_results, s_results, s_current_section, s_prev_h2,
                         s_tables, s_rows, s_row, s_numbers, s_enrich, s_returned, s_cut_short, s_failed, s_config>>
       \/ ScrapeDateReturns(<< >>, FALSE, TRUE)               \* the request or the parse raises
    /\ s_cancel_at' = RequestEnds(s_cancel_at)
    /\ UNCHANGED <<not_scrape, s_tab, s_dates, s_args, s_i,
                   s_loop_end, s_saves, s_answer, s_handoff, s_reported>>

\* scrape_date, lines 212-223 and 268: the next table, or the end of the page
S_NextTable(h2_texts, max_tables) ==
    /\ s_pc = "tables"
    /\ \/ /\ s_tables < max_tables
          /\ \E h \in {s_prev_h2} \cup {<<t>> : t \in h2_texts} :
                /\ s_prev_h2' = h
                /\ s_current_section' = ClassifySection(h, s_current_section)
                /\ s_pc' = IF ClassifySection(h, s_current_section) = NONE
                           THEN "tables" ELSE "rows"
          /\ s_tables' = s_tables + 1
          /\ UNCHANGED <<s_all_results, s_results, s_rows, s_row, s_numbers, s_enrich, s_returned, s_cut_short, s_failed, s_config>>
       \/ ScrapeDateReturns(s_results, FALSE, FALSE)
    /\ UNCHANGED <<not_scrape, s_tab, s_dates, s_args, s_i,
                   s_cancel_at, s_loop_end, s_saves, s_answer, s_handoff, s_reported>>

\* scrape_date, lines 224-247 and 256-267: the next row of the table
S_NextRow(rows, max_rows) ==
    /\ s_pc = "rows"
    /\ \/ /\ s_rows < max_rows
          /\ \E row \in rows :
                IF ~cancel_check
                THEN ScrapeDateReturns(StoppedResults(s_results), TRUE, FALSE)         \* lines 226-227
                ELSE /\ s_rows' = s_rows + 1
                     /\ UNCHANGED <<s_all_results, s_current_section, s_prev_h2,
                                    s_tables, s_numbers, s_enrich, s_returned, s_cut_short, s_failed>>
                     /\ s_config' = IF row.cells >= 3 /\ row.link     \* line 235
                                    THEN ConfigRead(s_config, "detail_base_url")
                                    ELSE s_config
                     /\ IF row.cells >= 3
                        THEN IF WantsEnrichment(s_args.fetch_nums, RowFields(row).detail_url,
                                                s_current_section)
                             THEN /\ s_row' = RowFields(row)
                                  /\ s_pc' = "enrich_check"
                                  /\ UNCHANGED s_results
                             ELSE /\ s_results' = Emit(s_results, s_dates[s_i],
                                                       s_current_section, RowFields(row),
                                                       NO_NUMBERS)
                                  /\ UNCHANGED <<s_row, s_pc>>
                        ELSE UNCHANGED <<s_results, s_row, s_pc>>
       \/ /\ s_pc' = "tables"                                 \* no row is left
          /\ UNCHANGED <<s_all_results, s_results, s_current_section, s_prev_h2,
                         s_tables, s_rows, s_row, s_numbers, s_enrich, s_returned, s_cut_short, s_failed, s_config>>
    /\ UNCHANGED <<not_scrape, s_tab, s_dates, s_args, s_i,
                   s_cancel_at, s_loop_end, s_saves, s_answer, s_handoff, s_reported>>

\* scrape_date, lines 248-253, and fetch_approval_number, lines 164-170
S_EnrichCheck ==
    /\ s_pc = "enrich_check"
    /\ IF ~cancel_check
       THEN ScrapeDateReturns(StoppedResults(s_results), TRUE, FALSE)                   \* lines 249-250
       ELSE /\ s_pc' = IF convert_detail_url_to_body_url(s_row.detail_url) = EMPTY
                       THEN "enrich_sleep"                    \* lines 165-166
                       ELSE "enrich_fetch"
            /\ s_numbers' = NO_NUMBERS
            /\ s_enrich' = IF convert_detail_url_to_body_url(s_row.detail_url) = EMPTY
                           THEN "underived" ELSE NONE
            /\ s_config' = ConfigRead(s_config, "detail_base_url")    \* line 154
            /\ UNCHANGED <<s_all_results, s_results, s_current_section, s_prev_h2,
                           s_tables, s_rows, s_row, s_returned, s_cut_short, s_failed>>
    /\ UNCHANGED <<not_scrape, s_tab, s_dates, s_args, s_i,
                   s_cancel_at, s_loop_end, s_saves, s_answer, s_handoff, s_reported>>

\* a failed call hands back a number
EnrichFailureNumbers_Stale == [approval_no |-> <<"A100">>, certification_no |-> EMPTY]

\* lines 193-196: what fetch_approval_number returns when the call raised
EnrichFailureNumbers == NO_NUMBERS

\* fetch_approval_number, lines 170-196: the body request ends
S_EnrichResponse ==
    /\ s_pc = "enrich_fetch"
    /\ \/ \E n \in Numbers : s_numbers' = n /\ s_enrich' = "answered"
       \/ s_numbers' = EnrichFailureNumbers /\ s_enrich' = "failed"
    /\ s_pc' = "enrich_sleep"
    /\ s_cancel_at' = RequestEnds(s_cancel_at)
    /\ UNCHANGED <<not_scrape, s_tab, s_dates, s_args, s_i, s_all_results, s_results,
                   s_current_section, s_prev_h2, s_tables, s_rows, s_row,
                   s_returned, s_loop_end, s_cut_short, s_failed, s_config, s_saves,
                   s_answer, s_handoff, s_reported>>

\* scrape_date, lines 254-267: the delay after the call, then the row is emitted
S_EnrichSlept ==
    /\ s_pc = "enrich_sleep"
    /\ s_results' = Emit(s_results, s_dates[s_i], s_current_section, s_row, s_numbers)
    /\ s_row' = NO_ROW
    /\ s_numbers' = NO_NUMBERS
    /\ s_enrich' = NONE
    /\ s_pc' = "rows"
    /\ UNCHANGED <<not_scrape, s_tab, s_dates, s_args, s_i, s_all_results,
                   s_current_section, s_prev_h2, s_tables, s_rows, s_obs>>

\* _collect_data, line 561: the delay after a date
S_DateSlept ==
    /\ s_pc = "sleep"
    /\ s_i' = s_i + 1
    /\ s_pc' = "date_check"
    /\ UNCHANGED <<not_scrape, s_tab, s_dates, s_args, s_all_results, s_results,
                   s_current_section, s_prev_h2, s_tables, s_rows, s_row, s_numbers, s_enrich,
                   s_obs>>

\* save_results, lines 603-614
save_results(saves) == saves + 1

\* _handle_scrape_completion, lines 565-583, up to its dialog
S_HandleCompletion ==
    /\ s_pc = "complete"
    /\ IF ~s_is_running
       THEN /\ s_reported' = "interrupted"
            /\ IF s_all_results # << >>
               THEN s_pc' = "ask" /\ s_answer' = "pending"
               ELSE s_pc' = "finally" /\ UNCHANGED s_answer
            /\ UNCHANGED s_saves
       ELSE /\ s_reported' = "completed"
            /\ s_saves' = IF s_all_results # << >> THEN save_results(s_saves) ELSE s_saves
            /\ s_pc' = "info"
            /\ UNCHANGED s_answer
    /\ UNCHANGED <<not_scrape, s_tab, s_dates, s_args, s_i, s_all_results, s_results,
                   s_current_section, s_prev_h2, s_tables, s_rows, s_row, s_numbers, s_enrich,
                   s_returned, s_cancel_at, s_loop_end, s_cut_short, s_failed, s_config, s_handoff>>

\* lines 572-573: the confirmation dialog is answered
S_AskAnswered ==
    /\ s_pc = "ask"
    /\ \E yes \in BOOLEAN :
          /\ s_answer' = IF yes THEN "yes" ELSE "no"
          /\ s_saves' = IF yes THEN save_results(s_saves) ELSE s_saves
    /\ s_pc' = "finally"
    /\ UNCHANGED <<not_scrape, s_tab, s_dates, s_args, s_i, s_all_results, s_results,
                   s_current_section, s_prev_h2, s_tables, s_rows, s_row, s_numbers, s_enrich,
                   s_returned, s_cancel_at, s_loop_end, s_cut_short, s_failed, s_config, s_handoff, s_reported>>

\* lines 580-583: the completion dialog is dismissed
S_InfoDismissed ==
    /\ s_pc = "info"
    /\ s_handoff' = (s_all_results # << >>)                   \* line 581
    /\ s_pc' = "finally"
    /\ UNCHANGED <<not_scrape, s_tab, s_dates, s_args, s_i, s_all_results, s_results,
                   s_current_section, s_prev_h2, s_tables, s_rows, s_row, s_numbers, s_enrich,
                   s_returned, s_cancel_at, s_loop_end, s_cut_short, s_failed, s_config, s_saves, s_answer, s_reported>>

\* scrape_thread, lines 596-598: the error dialog is dismissed
S_ErrorDismissed ==
    /\ s_pc = "error"
    /\ s_pc' = "finally"
    /\ UNCHANGED <<not_scrape, s_tab, s_dates, s_args, s_i, s_all_results, s_results,
                   s_current_section, s_prev_h2, s_tables, s_rows, s_row, s_numbers, s_enrich,
                   s_obs>>

\* the finally branch leaves the flag set
FinallyFlag_Set == TRUE

\* lines 600 and 851: the finally branch of a worker clears the flag
FinallyFlag == FALSE

\* scrape_thread, lines 599-601; the thread ends and its locals are gone
S_Finally ==
    /\ s_pc = "finally"
    /\ s_is_running' = FinallyFlag
    /\ s_run_button' = set_running_state(FALSE).run_button
    /\ s_cancel_button' = set_running_state(FALSE).cancel_button
    /\ s_workers' = s_workers - 1
    /\ s_pc' = "idle"
    /\ s_args' = NO_ARGS
    /\ s_dates' = << >>
    /\ s_i' = 0
    /\ s_all_results' = << >>
    /\ s_rows' = 0
    /\ s_tables' = 0
    /\ ScrapeDateLocalsCleared
    /\ ScrapeObsCleared
    /\ s_config' = NO_READS
    /\ UNCHANGED not_scrape

ScrapeWorker(h2_texts, max_tables, rows, max_rows) ==
    \/ S_ThreadStart \/ S_DateCheck \/ S_ListingResponse
    \/ S_NextTable(h2_texts, max_tables) \/ S_NextRow(rows, max_rows)
    \/ S_EnrichCheck \/ S_EnrichResponse \/ S_EnrichSlept \/ S_DateSlept
    \/ S_HandleCompletion \/ S_AskAnswered \/ S_InfoDismissed \/ S_ErrorDismissed
    \/ S_Finally

ScrapeTabInit ==
    /\ s_is_running = FALSE                                   \* line 371
    /\ s_run_button = "normal"                                \* line 454
    /\ s_cancel_button = "disabled"                           \* line 456
    /\ s_workers = 0
    /\ s_pc = "idle"
    /\ s_dates = << >>
    /\ s_args = NO_ARGS
    /\ s_i = 0
    /\ s_all_results = << >>
    /\ s_results = << >>
    /\ s_current_section = NONE
    /\ s_prev_h2 = NO_H2
    /\ s_tables = 0
    /\ s_rows = 0
    /\ s_row = NO_ROW
    /\ s_numbers = NO_NUMBERS
    /\ s_enrich = NONE
    /\ s_returned = << >>
    /\ s_cancel_at = NOT_CANCELLED
    /\ s_loop_end = NONE
    /\ s_cut_short = FALSE
    /\ s_failed = {}
    /\ s_config = NO_READS
    /\ s_saves = 0
    /\ s_answer = NONE
    /\ s_handoff = FALSE
    /\ s_reported = NONE


\* ------------------------------------------------------------ Filter Loader
APPROVAL_MARK == "[shounin-bangou]"   \* U+627F U+8A8D U+756A U+53F7
CERT_MARK     == "[ninshou-bangou]"   \* U+8A8D U+8A3C U+756A U+53F7

\* an allow-list file as csv.DictReader sees it: header << >> for an empty file
\* (fieldnames is None), else <<fieldnames>>; rows are sequences of cells
NO_HEADER == << >>

SetMax(S) == CHOOSE x \in S : \A y \in S : y <= x
SetMin(S) == CHOOSE x \in S : \A y \in S : x <= y

\* lines 304-311: the index of the column the loop leaves in approval_col /
\* certification_col (0: None)
MarkedColumn(fieldnames, mark) ==
    LET matching == {j \in 1..Len(fieldnames) : Contains(fieldnames[j], <<mark>>)}
    IN  IF matching = {} THEN 0 ELSE SetMax(matching)

\* row.get(col) of a DictReader row: None (here << >>, as falsy) past the row's end
DictCell(row, col) == IF col <= Len(row) THEN row[col] ELSE EMPTY

\* a marker that no header name holds falls back on the first column
ColumnValues_FirstColumn(rows, col) ==
    LET c == IF col = 0 THEN 1 ELSE col
    IN  {Strip(DictCell(rows[j], c), WHITESPACE) :
            j \in {k \in 1..Len(rows) : DictCell(rows[k], c) # EMPTY}}

\* lines 313-317
ColumnValues(rows, col) ==
    IF col = 0 THEN {}
    ELSE {Strip(DictCell(rows[j], col), WHITESPACE) :
             j \in {k \in 1..Len(rows) : DictCell(rows[k], col) # EMPTY}}

\* lines 296-319
load_hospital_device_list(file) ==
    IF file.header = NO_HEADER
    THEN [raised |-> TRUE, approval_numbers |-> {}, certification_numbers |-> {}]
    ELSE [raised |-> FALSE,
          approval_numbers |->
              ColumnValues(file.rows, MarkedColumn(file.header[1], APPROVAL_MARK)),
          certification_numbers |->
              ColumnValues(file.rows, MarkedColumn(file.header[1], CERT_MARK))]

\* ------------------------------------------------------ Download Orchestrator
PDF_EXTENSION == <<".pdf">>
INVALID_CHARS == {"\\", "/", ":", "*", "?", "\"", "<", ">", "|"}
PY_NONE == <<"<None>">>       \* the None a DictReader gives a cell its row lacks

\* lines 740-751
load_filter_lists(use_filter, hosp_csv) ==
    IF use_filter
    THEN load_hospital_device_list(hosp_csv)
    ELSE [raised |-> FALSE, approval_numbers |-> {}, certification_numbers |-> {}]

\* line 759
IsCandidate(r) == r.section = SECTION_LISTED /\ r.pdfUrl # EMPTY /\ r.pdfUrl # PY_NONE

\* the numbers are looked up as the table holds them
MatchesFilter_Untrimmed(r, target_approvals, target_certs) ==
    \/ (r.approvalNumber # EMPTY /\ r.approvalNumber \in target_approvals)
    \/ (r.certificationNumber # EMPTY /\ r.certificationNumber \in target_certs)

\* lines 764-766
MatchesFilter(r, target_approvals, target_certs) ==
    LET an == Strip(r.approvalNumber, WHITESPACE)
        cn == Strip(r.certificationNumber, WHITESPACE)
    IN  \/ (an # EMPTY /\ an \in target_approvals)
        \/ (cn # EMPTY /\ cn \in target_certs)

RECURSIVE SelectSeq2(_, _, _)
SelectSeq2(seq, approvals, certs) ==
    IF seq = << >> THEN << >>
    ELSE IF MatchesFilter(Head(seq), approvals, certs)
         THEN <<Head(seq)>> \o SelectSeq2(Tail(seq), approvals, certs)
         ELSE SelectSeq2(Tail(seq), approvals, certs)

\* lines 753-771; None.strip() raises for a candidate row that lacks a number cell
load_and_filter_targets(rows, use_filter, target_approvals, target_certs) ==
    LET targets == SelectSeq(rows, IsCandidate)
    IN  IF use_filter
        THEN IF \E j \in 1..Len(targets) :
                   targets[j].approvalNumber = PY_NONE
                   \/ targets[j].certificationNumber = PY_NONE
             THEN [raised |-> TRUE, targets |-> << >>]
             ELSE [raised |-> FALSE,
                   targets |-> SelectSeq2(targets, target_approvals, target_certs)]
        ELSE [raised |-> FALSE, targets |-> targets]

\* lines 274-279
extract_doc_id_from_url(url) ==
    LET parts == Split(Strip(url, {"/"}), "/")
    IN  parts[Len(parts)]

\* lines 789-793
ShortName(name) ==
    LET cut == Take(name, 10)
    IN  [j \in 1..Len(cut) |-> IF cut[j] \in INVALID_CHARS THEN "_" ELSE cut[j]]

\* lines 796-799
FileName(row) ==
    IF ShortName(row.productName) # EMPTY
    THEN extract_doc_id_from_url(row.pdfUrl) \o <<"_">> \o ShortName(row.productName)
         \o PDF_EXTENSION
    ELSE extract_doc_id_from_url(row.pdfUrl) \o PDF_EXTENSION

\* a failed download is not counted
Tallied_FailLost(tally, outcome) ==
    CASE outcome = "success" -> [tally EXCEPT !.success = @ + 1]
      [] outcome = "skipped" -> [tally EXCEPT !.skipped = @ + 1]
      [] OTHER               -> tally

\* lines 809, 814, 817: the tallies after one more outcome
Tallied(tally, outcome) ==
    CASE outcome = "success" -> [tally EXCEPT !.success = @ + 1]
      [] outcome = "fail"    -> [tally EXCEPT !.fail = @ + 1]
      [] outcome = "skipped" -> [tally EXCEPT !.skipped = @ + 1]
      [] OTHER               -> tally

NO_TALLY  == [success |-> 0, fail |-> 0, skipped |-> 0]
NO_REPORT == [kind |-> NONE, tally |-> NO_TALLY]
NO_FILE   == [header |-> NO_HEADER, rows |-> << >>]
NO_DARGS  == [csv |-> << >>, use_filter |-> FALSE, hosp |-> NO_FILE, skip_exist |-> FALSE]
D_NOT_CANCELLED == [requested |-> FALSE, between |-> FALSE, done |-> 0, later |-> 0]

DownloadObsCleared ==
    /\ d_outcomes' = << >>
    /\ d_cancel_at' = D_NOT_CANCELLED
    /\ d_reported' = NO_REPORT
    /\ d_loop_end' = NONE
    /\ d_delays' = 0

\* run_download, lines 711-734; csv / hosp are the files' contents, and the
\* two _exists flags tell whether the paths name existing files
RunDownload(csv_exists, csv, use_filter, hosp_exists, hosp, skip_exist) ==
    /\ d_run_button = "normal"
    /\ IF ~csv_exists \/ (use_filter /\ ~hosp_exists)
       THEN UNCHANGED vars                                    \* lines 715-723
       ELSE /\ d_is_running' = RunFlag(d_is_running)
            /\ d_run_button' = set_running_state(TRUE).run_button
            /\ d_cancel_button' = set_running_state(TRUE).cancel_button
            /\ d_workers' = d_workers + 1
            /\ d_pc' = "start"
            /\ d_args' = [csv |-> csv, use_filter |-> use_filter, hosp |-> hosp,
                          skip_exist |-> skip_exist]
            /\ d_targets' = << >>
            /\ d_i' = 0
            /\ d_tally' = NO_TALLY
            /\ DownloadObsCleared
            /\ UNCHANGED <<not_download, d_files, d_earlier>>

\* the worker is between two targets: before the loop head, or in the delay
BetweenTargets == d_pc \in {"start", "check", "sleep"}

\* cancel_download -> cancel_task, lines 736-738 and 358-361
CancelDownload ==
    /\ d_cancel_button = "normal"
    /\ d_is_running' = CancelledFlag
    /\ d_cancel_at' = IF d_cancel_at = D_NOT_CANCELLED
                      THEN [requested |-> TRUE, between |-> BetweenTargets,
                            done |-> Len(d_outcomes), later |-> 0]
                      ELSE d_cancel_at
    /\ UNCHANGED <<not_download, d_run_button, d_cancel_button, d_workers, d_files, d_earlier,
                   d_locals, d_outcomes, d_reported, d_loop_end, d_delays>>

\* download_thread, lines 835-842, and _download_files, line 775
D_ThreadStart ==
    /\ d_pc = "start"
    /\ LET lists == load_filter_lists(d_args.use_filter, d_args.hosp)
           found == load_and_filter_targets(d_args.csv, d_args.use_filter,
                                            lists.approval_numbers,
                                            lists.certification_numbers)
       IN  IF lists.raised \/ found.raised
           THEN /\ d_pc' = "error"
                /\ UNCHANGED <<d_targets, d_i>>
           ELSE /\ d_targets' = found.targets
                /\ d_i' = 1
                /\ d_pc' = "check"
    /\ UNCHANGED <<not_download, d_tab, d_files, d_earlier, d_args, d_tally, d_obs>>

\* an existing file is fetched again
SkipsExisting_Never(skip_exist, file_exists) == FALSE

\* line 807: whether the target is skipped
SkipsExisting(skip_exist, file_exists) == skip_exist /\ file_exists

\* _download_files, lines 777-809: the loop head, up to the download request
\* every target counts as having a document id
HasDocId_Always(target) == TRUE

\* lines 781-786: a target without a document id is passed over
HasDocId(target) == extract_doc_id_from_url(target.pdfUrl) # EMPTY

D_Check ==
    /\ d_pc = "check"
    /\ IF d_i > Len(d_targets)
       THEN /\ d_loop_end' = "exhausted"
            /\ d_pc' = "complete"
            /\ UNCHANGED <<d_i, d_tally, d_outcomes>>
       ELSE IF ~d_is_running
       THEN /\ d_loop_end' = "break"                          \* lines 778-779
            /\ d_pc' = "complete"
            /\ UNCHANGED <<d_i, d_tally, d_outcomes>>
       ELSE IF ~HasDocId(d_targets[d_i])
       THEN /\ d_i' = d_i + 1                                 \* lines 785-786
            /\ d_outcomes' = Append(d_outcomes, "no_id")
            /\ UNCHANGED <<d_pc, d_tally, d_loop_end>>
       ELSE IF SkipsExisting(d_args.skip_exist, FileName(d_targets[d_i]) \in d_files)
       THEN /\ d_i' = d_i + 1                                 \* lines 807-809
            /\ d_tally' = Tallied(d_tally, "skipped")
            /\ d_outcomes' = Append(d_outcomes, "skipped")
            /\ UNCHANGED <<d_pc, d_loop_end>>
       ELSE /\ d_pc' = "fetch"
            /\ UNCHANGED <<d_i, d_tally, d_outcomes, d_loop_end>>
    /\ UNCHANGED <<not_download, d_tab, d_files, d_earlier, d_args, d_targets, d_cancel_at,
                   d_reported, d_delays>>

\* how download_file may end (lines 281-294): written in full; a status other
\* than 200, or an error before the file is opened; an error while the body
\* is streamed into the opened file
DownloadEnds == {"ok", "refused", "broken"}

\* a failed download goes on to the next target at once
AfterDownload_FailNoDelay(ok) == IF ok THEN "sleep" ELSE "check"

\* line 818: the delay follows the attempt, however it ended
AfterDownload(ok) == "sleep"

\* download_file, lines 281-294, and _download_files, lines 811-817
D_DownloadResponse ==
    /\ d_pc = "fetch"
    /\ \E how \in DownloadEnds :
          /\ d_files' = IF how \in {"ok", "broken"}
                        THEN d_files \cup {FileName(d_targets[d_i])}
                        ELSE d_files
          /\ d_tally' = Tallied(d_tally, IF how = "ok" THEN "success" ELSE "fail")
          /\ d_outcomes' = Append(d_outcomes, IF how = "ok" THEN "success" ELSE "fail")
    /\ d_pc' = AfterDownload(d_tally'.success > d_tally.success)
    /\ d_cancel_at' = RequestEnds(d_cancel_at)
    /\ UNCHANGED <<not_download, d_tab, d_earlier, d_args, d_targets, d_i,
                   d_reported, d_loop_end, d_delays>>

\* _download_files, line 818: the delay after an attempted download
D_Slept ==
    /\ d_pc = "sleep"
    /\ d_i' = d_i + 1
    /\ d_pc' = "check"
    /\ d_delays' = d_delays + 1
    /\ UNCHANGED <<not_download, d_tab, d_files, d_earlier, d_args, d_targets, d_tally,
                   d_outcomes, d_cancel_at, d_reported, d_loop_end>>

\* _handle_download_completion, lines 822-831, up to its dialog
D_HandleCompletion ==
    /\ d_pc = "complete"
    /\ IF ~d_is_running
       THEN /\ d_reported' = [kind |-> "interrupted", tally |-> d_tally]
            /\ d_pc' = "finally"
       ELSE /\ d_reported' = [kind |-> "completed", tally |-> d_tally]
            /\ d_pc' = "info"
    /\ UNCHANGED <<not_download, d_tab, d_files, d_earlier, d_args, d_targets, d_i, d_tally,
                   d_outcomes, d_cancel_at, d_loop_end, d_delays>>

\* line 831: the completion dialog is dismissed
D_InfoDismissed ==
    /\ d_pc = "info"
    /\ d_pc' = "finally"
    /\ UNCHANGED <<not_download, d_tab, d_files, d_earlier, d_args, d_targets, d_i, d_tally, d_obs>>

\* download_thread, lines 847-849: the error dialog is dismissed
D_ErrorDismissed ==
    /\ d_pc = "error"
    /\ d_pc' = "finally"
    /\ UNCHANGED <<not_download, d_tab, d_files, d_earlier, d_args, d_targets, d_i, d_tally, d_obs>>

\* download_thread, lines 850-852; the thread ends and its locals are gone
D_Finally ==
    /\ d_pc = "finally"
    /\ d_is_running' = FinallyFlag
    /\ d_run_button' = set_running_state(FALSE).run_button
    /\ d_cancel_button' = set_running_state(FALSE).cancel_button
    /\ d_workers' = d_workers - 1
    /\ d_pc' = "idle"
    /\ d_args' = NO_DARGS
    /\ d_targets' = << >>
    /\ d_i' = 0
    /\ d_tally' = NO_TALLY
    /\ DownloadObsCleared
    /\ d_earlier' = (d_earlier \/ ("earlier_runs" \in watched /\ d_cancel_at.requested))
    /\ UNCHANGED <<not_download, d_files>>

DownloadWorker ==
    \/ D_ThreadStart \/ D_Check \/ D_DownloadResponse \/ D_Slept
    \/ D_HandleCompletion \/ D_InfoDismissed \/ D_ErrorDismissed \/ D_Finally

DownloadTabInit ==
    /\ d_is_running = FALSE                                   \* line 624
    /\ d_run_button = "normal"                                \* line 677
    /\ d_cancel_button = "disabled"                           \* line 679
    /\ d_workers = 0
    /\ d_pc = "idle"
    /\ d_args = NO_DARGS
    /\ d_targets = << >>
    /\ d_i = 0
    /\ d_tally = NO_TALLY
    /\ d_outcomes = << >>
    /\ d_cancel_at = D_NOT_CANCELLED
    /\ d_reported = NO_REPORT
    /\ d_loop_end = NONE
    /\ d_delays = 0

\* ---- the tables and files the download runs of the model are given
CsvTargetRows ==
    { [section |-> SECTION_LISTED, productName |-> <<"a", "/", "b">>,
       approvalNumber |-> <<"A100">>, certificationNumber |-> EMPTY,
       pdfUrl |-> <<"u", "/", "d1", "/">>],
      [section |-> SECTION_LISTED, productName |-> EMPTY,
       approvalNumber |-> <<"A999">>, certificationNumber |-> EMPTY,
       pdfUrl |-> <<"u", "/", "d2">>],
      [section |-> SECTION_LISTED, productName |-> <<"a">>,
       approvalNumber |-> EMPTY, certificationNumber |-> EMPTY,
       pdfUrl |-> <<"/">>],
      [section |-> SECTION_DELETED, productName |-> <<"a">>,
       approvalNumber |-> <<"A100">>, certificationNumber |-> EMPTY,
       pdfUrl |-> <<"u", "/", "d3", "/">>] }

SeqsUpTo(S, n) == UNION {[1..k -> S] : k \in 0..n}

HospFiles ==
    { [header |-> <<<< <<APPROVAL_MARK>> >>>>, rows |-> << << <<"A100">> >> >>],
      [header |-> <<<< <<"name">> >>>>, rows |-> << << <<"A100">> >> >>],
      NO_FILE }


ScrapeNext ==
    \/ \E date_ok \in BOOLEAN, start \in 1..MaxDates, end \in 1..MaxDates,
          fetch_nums \in BOOLEAN :
          RunScrape(date_ok, start, end, fetch_nums)
    \/ CancelScrape
    \/ ScrapeWorker(H2Texts, MaxTables, Rows, MaxRows)

NoCall == f_in = << >> /\ f_done = FALSE /\ f_out = << >>

ScrapeInit ==
    /\ app_settings = DEFAULT_SETTINGS
    /\ cfg_file = NO_CONFIG
    /\ ScrapeTabInit
    /\ DownloadTabInit
    /\ d_files = {}
    /\ d_earlier = FALSE
    /\ watched = {}
    /\ NoCall

SpecScrape == ScrapeInit /\ [][ScrapeNext]_vars

DownloadNext ==
    \/ \E csv_exists \in BOOLEAN, hosp_exists \in BOOLEAN,
          use_filter \in BOOLEAN, skip_exist \in BOOLEAN :
          \E csv \in IF csv_exists THEN SeqsUpTo(CsvTargetRows, MaxCsvRows) ELSE {<< >>},
             hosp \in IF hosp_exists THEN HospFiles ELSE {NO_FILE} :
             RunDownload(csv_exists, csv, use_filter, hosp_exists, hosp, skip_exist)
    \/ CancelDownload
    \/ DownloadWorker

\* the pdf directory is empty, or holds the file of an earlier run
DownloadInit ==
    /\ app_settings = DEFAULT_SETTINGS
    /\ cfg_file = NO_CONFIG
    /\ ScrapeTabInit
    /\ DownloadTabInit
    /\ d_files \in {{}, {<<"d1", "_", "a", "_", "b", ".pdf">>}}
    /\ d_earlier = FALSE
    /\ watched = {}
    /\ NoCall

SpecDownload == DownloadInit /\ [][DownloadNext]_vars

\* ---- the two tabs side by side: one page shape, one table row
AppH2Texts == { <<LISTED_MARK>> }
AppRows    == { [cells |-> 3, link |-> TRUE, text |-> <<"P">>,
                 href |-> <<"/", "ygo", "/", "pack", "/", "123", "/", "456">>] }
AppCsvRows == { [section |-> SECTION_LISTED, productName |-> <<"a", "/", "b">>,
                 approvalNumber |-> <<"A100">>, certificationNumber |-> EMPTY,
                 pdfUrl |-> <<"u", "/", "d1", "/">>] }

AppNext ==
    \/ \E end \in 1..AppMaxDates : RunScrape(TRUE, 1, end, TRUE)
    \/ CancelScrape
    \/ ScrapeWorker(AppH2Texts, AppMaxTables, AppRows, AppMaxRows)
    \/ \E use_filter \in BOOLEAN, csv \in SeqsUpTo(AppCsvRows, AppMaxCsvRows) :
          RunDownload(TRUE, csv, use_filter, TRUE, NO_FILE, FALSE)
    \/ CancelDownload
    \/ DownloadWorker

AppInit ==
    /\ app_settings = DEFAULT_SETTINGS
    /\ cfg_file = NO_CONFIG
    /\ ScrapeTabInit
    /\ DownloadTabInit
    /\ d_files = {}
    /\ d_earlier = FALSE
    /\ watched = {"requests_after_cancel"}
    /\ NoCall

SpecApp == AppInit /\ [][AppNext]_vars

\* The runs of the two tabs one at a time (the workers of the two tabs write
\* no state in common), every network call returning or timing out
\* (HTTP_TIMEOUT, HTTP_DOWNLOAD_TIMEOUT, lines 60-61), every sleep ending and
\* every dialog being dismissed: a worker that can take a step takes one.
FairNext ==
    \/ /\ d_pc = "idle"
       /\ \E end \in 1..AppMaxDates : RunScrape(TRUE, 1, end, TRUE)
    \/ CancelScrape
    \/ ScrapeWorker(AppH2Texts, AppMaxTables, AppRows, AppMaxRows)
    \/ /\ s_pc = "idle"
       /\ \E use_filter \in BOOLEAN, csv \in SeqsUpTo(AppCsvRows, AppMaxCsvRows) :
             RunDownload(TRUE, csv, use_filter, TRUE, NO_FILE, FALSE)
    \/ CancelDownload
    \/ DownloadWorker

SpecFair ==
    /\ AppInit /\ [][FairNext]_vars
    /\ WF_vars(ScrapeWorker(AppH2Texts, AppMaxTables, AppRows, AppMaxRows))
    /\ WF_vars(DownloadWorker)

\* The runs of the two tabs one at a time, over ranges of up to MaxDates
\* dates and tables of up to MaxCsvRows targets, with the cancel buttons, and
\* with the cancellation of earlier download runs observed
RunsNext ==
    \/ /\ d_pc = "idle"
       /\ \E end \in 1..MaxDates : RunScrape(TRUE, 1, end, TRUE)
    \/ CancelScrape
    \/ ScrapeWorker(AppH2Texts, AppMaxTables, AppRows, AppMaxRows)
    \/ /\ s_pc = "idle"
       /\ \E use_filter \in BOOLEAN, csv \in SeqsUpTo(CsvTargetRows, MaxCsvRows) :
             RunDownload(TRUE, csv, use_filter, TRUE, NO_FILE, FALSE)
    \/ CancelDownload
    \/ DownloadWorker

RunsInit ==
    /\ app_settings = DEFAULT_SETTINGS
    /\ cfg_file = NO_CONFIG
    /\ ScrapeTabInit
    /\ DownloadTabInit
    /\ d_files = {}
    /\ d_earlier = FALSE
    /\ watched = {"earlier_runs"}
    /\ NoCall

SpecRuns == RunsInit /\ [][RunsNext]_vars

\* ======================================================================
\* The settings tab on its own, over restarts of the application
\* ======================================================================
\* what the two delay entries may hold when the save button is pressed
WaitTexts ==
    {Seconds(0 - 1), Seconds(0), Seconds(7), Seconds(MAX_WAIT_TIME),
     Seconds(MAX_WAIT_TIME + 1), NAN, NOT_A_NUMBER}

OTHER_BASE_URL   == <<"http:", "/", "/", "mirror", "/", "list?DATE=">>
OTHER_DETAIL_URL == <<"http:", "/", "/", "mirror">>

BaseUrlTexts   == {DEFAULT_SETTINGS.base_url, OTHER_BASE_URL}
DetailUrlTexts == {DEFAULT_SETTINGS.detail_base_url, OTHER_DETAIL_URL}

\* on_closing, lines 1083-1089, then PMDAToolApp.__init__, line 999, of the
\* next start: the settings are saved with the window geometry and loaded
Restart ==
    /\ s_pc = "idle" /\ d_pc = "idle"
    /\ \E written \in BOOLEAN :
          /\ cfg_file' = SettingsSave(app_settings, written)
          /\ app_settings' = SettingsLoad(cfg_file')
    /\ UNCHANGED <<watched, s_vars, d_vars, f_vars>>

SettingsNext ==
    \/ \E wait_text \in WaitTexts, scrape_text \in WaitTexts,
          base_url \in BaseUrlTexts, detail_url \in DetailUrlTexts :
          SaveSettings(wait_text, scrape_text, base_url, detail_url)
    \/ ResetSettings
    \/ Restart

SettingsInit ==
    /\ app_settings = DEFAULT_SETTINGS
    /\ cfg_file = NO_CONFIG
    /\ ScrapeTabInit
    /\ DownloadTabInit
    /\ d_files = {}
    /\ d_earlier = FALSE
    /\ watched = {}
    /\ NoCall

SpecSettings == SettingsInit /\ [][SettingsNext]_vars

\* ======================================================================
\* A collection run, with the settings tab in use beside it
\* ======================================================================
LiveNext ==
    \/ \E end \in 1..AppMaxDates, fetch_nums \in BOOLEAN :
          RunScrape(TRUE, 1, end, fetch_nums)
    \/ CancelScrape
    \/ ScrapeWorker(AppH2Texts, AppMaxTables, AppRows, AppMaxRows)
    \/ \E base_url \in BaseUrlTexts, detail_url \in DetailUrlTexts :
          SaveSettings(Seconds(7), Seconds(7), base_url, detail_url)
    \/ ResetSettings

LiveInit ==
    /\ app_settings = DEFAULT_SETTINGS
    /\ cfg_file = NO_CONFIG
    /\ ScrapeTabInit
    /\ DownloadTabInit
    /\ d_files = {}
    /\ d_earlier = FALSE
    /\ watched = {"config_reads"}
    /\ NoCall

SpecLive == LiveInit /\ [][LiveNext]_vars

\* ---- _load_and_filter_targets called on its own
FilterRows ==
    [section : {SECTION_LISTED, SECTION_DELETED},
     productName : {<<"a">>},
     approvalNumber : {EMPTY, <<"A100">>, <<" ", "A100">>, PY_NONE},
     certificationNumber : {EMPTY, <<"C200">>},
     pdfUrl : {EMPTY, <<"u", "/", "d1">>}]

\* sets as load_hospital_device_list builds them: of stripped values
FilterInputs ==
    [rows : SeqsUpTo(FilterRows, MaxFilterRows),
     use_filter : BOOLEAN,
     approvals : {{}, {<<"A100">>}, {<<"A100">>, EMPTY}},
     certs : {{}, {<<"C200">>}}]

F_LoadAndFilterTargets ==
    /\ ~f_done
    /\ f_done' = TRUE
    /\ f_out' = load_and_filter_targets(f_in.rows, f_in.use_filter,
                                        f_in.approvals, f_in.certs)
    /\ UNCHANGED <<app_settings, cfg_file, watched, s_vars, d_vars, f_in>>

FilterInit ==
    /\ app_settings = DEFAULT_SETTINGS
    /\ cfg_file = NO_CONFIG
    /\ ScrapeTabInit
    /\ DownloadTabInit
    /\ d_files = {}
    /\ d_earlier = FALSE
    /\ watched = {}
    /\ f_in \in FilterInputs
    /\ f_done = FALSE
    /\ f_out = << >>

SpecFilter == FilterInit /\ [][F_LoadAndFilterTargets]_vars

\* ---- load_hospital_device_list called on its own
HeaderNames == { <<APPROVAL_MARK>>, <<"old", APPROVAL_MARK>>, <<CERT_MARK>>, <<"name">> }
Cells       == { EMPTY, <<"A100">>, <<" ">>, <<" ", "B200", " ">> }

\* files with a header line: each row has at most as many cells as the header
FilesWithHeader ==
    UNION { [header : {<<h>>}, rows : SeqsUpTo(SeqsUpTo(Cells, Len(h)), MaxHospRows)] :
              h \in SeqsUpTo(HeaderNames, MaxCols) \ {<< >>} }

LoaderInputs == FilesWithHeader \cup {NO_FILE}

F_LoadHospitalDeviceList ==
    /\ ~f_done
    /\ f_done' = TRUE
    /\ f_out' = load_hospital_device_list(f_in)
    /\ UNCHANGED <<app_settings, cfg_file, watched, s_vars, d_vars, f_in>>

LoaderInit ==
    /\ app_settings = DEFAULT_SETTINGS
    /\ cfg_file = NO_CONFIG
    /\ ScrapeTabInit
    /\ DownloadTabInit
    /\ d_files = {}
    /\ d_earlier = FALSE
    /\ watched = {}
    /\ f_in \in LoaderInputs
    /\ f_done = FALSE
    /\ f_out = << >>

SpecLoader == LoaderInit /\ [][F_LoadHospitalDeviceList]_vars

\* ---- the filename derivation of _download_files called on its own
NameChars == INVALID_CHARS \cup {"a"}

\* short names of any characters, and two names longer than the 10 kept
LongNames ==
    { <<"a", "a", "a", "a", "a", "a", "a", "a", "a", "/", "a">>,
      <<"a", "a", "a", "a", "a", "a", "a", "a", "a", "a", "/">> }

FileNameInputs ==
    [productName : SeqsUpTo(NameChars, MaxNameLen) \cup LongNames,
     pdfUrl : { <<"u", "/", "d1", "/">>, <<"u", "/", "d2">>, <<"/">>,
                <<"u", "/", "d3", "?", "v", "/">> }]

\* lines 781-799: no filename is made for a target without a document id
F_FileName ==
    /\ ~f_done
    /\ f_done' = TRUE
    /\ f_out' = IF extract_doc_id_from_url(f_in.pdfUrl) = EMPTY
                THEN << >>
                ELSE FileName(f_in)
    /\ UNCHANGED <<app_settings, cfg_file, watched, s_vars, d_vars, f_in>>

FileNameInit ==
    /\ app_settings = DEFAULT_SETTINGS
    /\ cfg_file = NO_CONFIG
    /\ ScrapeTabInit
    /\ DownloadTabInit
    /\ d_files = {}
    /\ d_earlier = FALSE
    /\ watched = {}
    /\ f_in \in FileNameInputs
    /\ f_done = FALSE
    /\ f_out = << >>

SpecFileName == FileNameInit /\ [][F_FileName]_vars

\* ======================================================================
\* The URL deriver as a function of a detail address
\* ======================================================================
\* "/".join(segs)
RECURSIVE JoinSlash(_)
JoinSlash(segs) ==
    IF segs = << >> THEN EMPTY
    ELSE IF Len(segs) = 1 THEN segs[1]
    ELSE segs[1] \o <<"/">> \o JoinSlash(Tail(segs))

\* the segments a link target is made of; the empty one gives a doubled slash
UrlSegments == {<<"ygo">>, <<"pack">>, <<"a">>, EMPTY}

\* link targets (the href of line 235): relative ones with or without a
\* leading slash and with up to two trailing ones, and absolute ones that
\* spell out the base address or another host
Hrefs ==
    { lead \o JoinSlash(segs) \o trail :
        lead  \in {EMPTY, <<"/">>, DEFAULT_SETTINGS.detail_base_url \o <<"/">>,
                   <<"http:", "/", "/", "other", "/">>},
        segs  \in SeqsUpTo(UrlSegments, MaxSegments),
        trail \in {EMPTY, <<"/">>, <<"/", "/">>} }

\* line 235 puts the base address before the link target; line 238 gives the
\* empty address; a caller may also pass the target alone
UrlInputs ==
    {EMPTY} \cup Hrefs \cup {DEFAULT_SETTINGS.detail_base_url \o h : h \in Hrefs}

\* lines 137-160: both derivers applied to one detail address
F_ConvertDetailUrl ==
    /\ ~f_done
    /\ f_done' = TRUE
    /\ f_out' = [pdf  |-> convert_detail_url_to_pdf(f_in),
                 body |-> convert_detail_url_to_body_url(f_in)]
    /\ UNCHANGED <<app_settings, cfg_file, watched, s_vars, d_vars, f_in>>

UrlInit ==
    /\ app_settings = DEFAULT_SETTINGS
    /\ cfg_file = NO_CONFIG
    /\ ScrapeTabInit
    /\ DownloadTabInit
    /\ d_files = {}
    /\ d_earlier = FALSE
    /\ watched = {}
    /\ f_in \in UrlInputs
    /\ f_done = FALSE
    /\ f_out = << >>

SpecUrl == UrlInit /\ [][F_ConvertDetailUrl]_vars

\* ======================================================================
\* Properties of the collection run (checked under SpecScrape)
\* ======================================================================
Range(seq) == {seq[j] : j \in 1..Len(seq)}

RECURSIVE Flatten(_)
Flatten(seqs) == IF seqs = << >> THEN << >> ELSE Head(seqs) \o Flatten(Tail(seqs))

ScrapeLoopEnded == s_loop_end # NONE

\* C1: when cancellation is requested while the worker stands between two
\* dates, k dates having been processed, the collection result is exactly
\* the concatenation, in date order, of what the listing fetcher returned
\* for d1..dk, and holds no record of a later date. (A request that arrives
\* while date k+1 is being read adds what the fetcher returns for that date,
\* and nothing of a later one.)
C1_CancelKeepsProcessedDates ==
    (ScrapeLoopEnded /\ s_cancel_at.requested) =>
        LET k == s_cancel_at.done
            m == Len(s_returned)
        IN  /\ k <= Len(s_dates)
            /\ s_cancel_at.between => m = k
            /\ m \in {k, k + 1} /\ m <= Len(s_dates)
            /\ s_all_results = Flatten(s_returned)
            /\ \A j \in 1..m : \A r \in Range(s_returned[j]) : r.date = s_dates[j]
            /\ \A r \in Range(s_all_results) : r.date \in {s_dates[j] : j \in 1..m}
            /\ \A a, b \in 1..Len(s_all_results) :
                  a < b => s_all_results[a].date <= s_all_results[b].date

\* a run over two dates, cancelled after the first, which had yielded records
C1_Witness ==
    /\ ScrapeLoopEnded /\ s_cancel_at.requested /\ s_cancel_at.between
    /\ s_cancel_at.done = 1 /\ Len(s_dates) = 2
    /\ s_all_results # << >>
    /\ s_loop_end = "break"

ScrapeRunOver == ScrapeLoopEnded /\ s_pc = "finally"

\* cancellation made the run stop early: the date loop broke, or a checkpoint
\* of the listing fetcher returned before the page was read to its end
ScrapeEndedEarly == s_loop_end = "break" \/ s_cut_short

\* C4: after the loop, records gathered by a run in which every date was read
\* to its end are written exactly once without asking; records gathered by a
\* run that cancellation ended early are written iff the caller confirms;
\* with no record, nothing is written.
C4_SaveFollowsHowLoopEnded ==
    ScrapeRunOver =>
        /\ (~ScrapeEndedEarly /\ s_all_results # << >>) =>
              (s_saves = 1 /\ s_answer = NONE)
        /\ (ScrapeEndedEarly /\ s_all_results # << >>) =>
              (s_answer \in {"yes", "no"} /\ (s_saves = 1 <=> s_answer = "yes")
               /\ s_saves <= 1)
        /\ (s_all_results = << >>) => s_saves = 0

\* C16: when the listing fetch or parse of a date raises, the listing fetcher
\* returns an empty sequence for that date, and the run still goes through
\* every remaining date: a run that no cancel request stopped has called the
\* fetcher once for each date of the range, and its result is the
\* concatenation of what was returned for the dates that did not fail; the
\* failure of a date never ends the worker in its error handler.
C16_FailedDateIsLocal ==
    /\ \A j \in s_failed : j <= Len(s_returned) => s_returned[j] = << >>
    /\ s_failed \subseteq 1..Len(s_dates)
    /\ (s_loop_end = "exhausted") =>
          /\ Len(s_returned) = Len(s_dates)
          /\ s_all_results = Flatten(s_returned)
          /\ \A j \in 1..Len(s_dates) :
                 \A r \in Range(s_returned[j]) : r.date = s_dates[j]
    /\ (s_loop_end = "break") => s_cancel_at.requested
    /\ s_pc = "error" => s_failed = {}

\* the first of two dates failed and the second yielded a record, which is
\* the whole result of the run
C16_Witness ==
    /\ s_loop_end = "exhausted" /\ ~s_cancel_at.requested
    /\ Len(s_dates) = 2 /\ s_failed = {1}
    /\ Len(s_returned[2]) = 1
    /\ s_all_results = s_returned[2]

EmptyNumbersStep ==
    \* no request is made for a detail address that yields no body address
    /\ s_pc = "enrich_fetch" =>
          convert_detail_url_to_body_url(s_row.detail_url) # EMPTY
    /\ s_enrich = "underived" =>
          (s_pc = "enrich_sleep"
           /\ convert_detail_url_to_body_url(s_row.detail_url) = EMPTY)
    \* either way the enricher hands back two empty strings
    /\ s_enrich \in {"underived", "failed"} => s_numbers = NO_NUMBERS
    \* and the worker is not in its error handler
    /\ s_enrich # NONE => s_pc = "enrich_sleep"
    \* the row is then emitted, if its name allows, with both numbers empty,
    \* and the loop over the rows goes on
    /\ (s_enrich \in {"underived", "failed"} /\ s_pc' # s_pc) =>
          /\ s_pc' = "rows"
          /\ IF s_row.product_name # EMPTY /\ s_row.product_name # HEADER_TOKEN
             THEN /\ Len(s_results') = Len(s_results) + 1
                  /\ SubSeq(s_results', 1, Len(s_results)) = s_results
                  /\ LET r == s_results'[Len(s_results')]
                     IN  /\ r.productName = s_row.product_name
                         /\ r.detailUrl = s_row.detail_url
                         /\ r.approvalNumber = EMPTY
                         /\ r.certificationNumber = EMPTY
             ELSE s_results' = s_results

\* C17: the detail enricher never propagates a failure: for a detail address
\* whose body address cannot be derived it returns two empty strings without
\* a request, and when the request or the parse raises it returns two empty
\* strings; the row is then emitted with empty approval and certification
\* numbers and the remaining rows are read.
C17_EnricherNeverPropagates == [][EmptyNumbersStep]_vars

\* the enrichment request of the second row of a run has failed and handed
\* back two empty strings, the first row standing emitted
C17_Witness ==
    /\ s_enrich = "failed" /\ s_rows = 2
    /\ Len(s_results) = 1
    /\ s_results[1].approvalNumber = EMPTY /\ s_results[1].detailUrl # EMPTY

StoppedAtCheckpointStep ==
    \* the fetcher returns early only at a row or an enrichment checkpoint
    \* that sees the stop, and what it returns is what it had emitted
    /\ (~s_cut_short /\ s_cut_short') =>
          /\ s_pc \in {"rows", "enrich_check"} /\ ~s_is_running
          /\ s_returned' = Append(s_returned, s_results)
          /\ s_all_results' = s_all_results \o s_results
          /\ \A r \in Range(s_results) : r.date = s_dates[s_i]
    \* the checkpoints never let a stopped fetcher go on
    /\ (s_pc = "enrich_check" /\ ~s_is_running /\ s_pc' # s_pc) => s_cut_short'
    /\ (s_pc = "rows" /\ ~s_is_running /\ s_rows' # s_rows) => s_cut_short'
    \* and the result stays as it is up to the end of the run
    /\ (s_cut_short /\ s_cut_short') => s_all_results' = s_all_results

\* C24: when the listing fetcher observes a stop at a row checkpoint or at an
\* enrichment checkpoint, it returns the records already emitted for the
\* earlier rows of that date, and these are appended to the collection
\* result and kept in it for the rest of the run.
C24_StopKeepsEmittedRows == [][StoppedAtCheckpointStep]_vars

\* the stop was seen at the second row of a date, after the first row had
\* been emitted: that record was returned and is the collection result
C24_Witness ==
    /\ s_cut_short /\ s_rows = 1
    /\ Len(s_returned) = 1 /\ Len(s_returned[1]) = 1
    /\ s_all_results = s_returned[1]

InsideTable == s_pc \in {"rows", "enrich_check", "enrich_fetch", "enrich_sleep"}

\* C6: the table whose rows are being read is classified by its own nearest
\* preceding heading: Listed only if that heading holds the listed marker,
\* Deleted only if it holds the deleted marker, and not read at all when the
\* heading is absent or holds neither marker.
C6_TableClassifiedByOwnHeading ==
    InsideTable =>
        /\ s_prev_h2 # NO_H2
        /\ s_current_section = SECTION_LISTED =>
              Contains(s_prev_h2[1], <<LISTED_MARK>>)
        /\ s_current_section = SECTION_DELETED =>
              Contains(s_prev_h2[1], <<DELETED_MARK>>)
        /\ s_current_section \in {SECTION_LISTED, SECTION_DELETED}

ScrapeRecords == Range(s_results) \cup Range(s_all_results)

\* C7: an enrichment call is made for a row only when the enrichment flag is
\* on, the row's section is Listed and its detailUrl is non-empty; a record of
\* a Deleted section always carries empty approval and certification numbers.
C7_EnrichmentOnlyForListed ==
    /\ s_pc \in {"enrich_check", "enrich_fetch", "enrich_sleep"} =>
          /\ s_args.fetch_nums
          /\ s_current_section = SECTION_LISTED
          /\ s_row.detail_url # EMPTY
    /\ \A r \in ScrapeRecords :
          (r.section = SECTION_DELETED \/ ~s_args.fetch_nums \/ r.detailUrl = EMPTY) =>
              (r.approvalNumber = EMPTY /\ r.certificationNumber = EMPTY)

\* with enrichment on, a Deleted row that has a link was emitted, and so was
\* a Listed row that the enrichment call gave a number
C7_Witness ==
    /\ s_args.fetch_nums
    /\ \E r \in Range(s_all_results) : r.section = SECTION_DELETED /\ r.detailUrl # EMPTY
    /\ \E r \in Range(s_all_results) : r.section = SECTION_LISTED /\ r.approvalNumber # EMPTY

\* C31: the listing fetcher makes an enrichment fetch, and the delay that
\* follows it, only for a row it goes on to emit: while the fetch or its
\* delay is under way the row's productName is neither empty nor the header
\* token, and the step that ends the delay adds one record to the date's
\* results (so the fetches of a date never outnumber its Listed records).
C31_EnrichmentOnlyForEmittedRows ==
    /\ [](s_pc \in {"enrich_fetch", "enrich_sleep"} =>
            (s_row.product_name # EMPTY /\ s_row.product_name # HEADER_TOKEN))
    /\ [][(s_pc = "enrich_sleep" /\ s_pc' = "rows") =>
            Len(s_results') = Len(s_results) + 1]_vars

\* C8: every record the listing fetcher emits has a non-empty productName
\* other than the header token and a section that is Listed or Deleted.
C8_RecordsWellFormed ==
    \A r \in ScrapeRecords \cup Range(Flatten(s_returned)) :
        /\ r.productName # EMPTY
        /\ r.productName # HEADER_TOKEN
        /\ r.section \in {SECTION_LISTED, SECTION_DELETED}

\* an uncancelled run that read two tables and two rows and emitted one of them
C8_Witness ==
    /\ s_pc = "finally" /\ s_loop_end = "exhausted" /\ ~s_cancel_at.requested
    /\ s_tables = 2 /\ s_rows = 2
    /\ Len(s_all_results) = 1


\* ======================================================================
\* Properties of the download run (checked under SpecDownload)
\* ======================================================================
CountOf(seq, x) == Cardinality({j \in 1..Len(seq) : seq[j] = x})

DownloadLoopEnded == d_loop_end # NONE

\* C2: when the flag is cleared while the worker stands between two targets,
\* j targets having been handled, the loop ends with exactly those j targets
\* handled and no fetch pending, each tally counts the outcomes of that kind
\* among them (a target without a document id counts nowhere), and the
\* report of the run carries these tallies. (A request that arrives while
\* target j+1 is being fetched lets that one fetch end, and it is counted.)
C2_CancelKeepsTallies ==
    (DownloadLoopEnded /\ d_cancel_at.requested) =>
        LET j == d_cancel_at.done
        IN  /\ j <= Len(d_targets)
            /\ d_cancel_at.between => Len(d_outcomes) = j
            /\ Len(d_outcomes) \in {j, j + 1} /\ Len(d_outcomes) <= Len(d_targets)
            /\ d_i = Len(d_outcomes) + 1
            /\ d_pc # "fetch"
            /\ d_tally.success = CountOf(d_outcomes, "success")
            /\ d_tally.fail = CountOf(d_outcomes, "fail")
            /\ d_tally.skipped = CountOf(d_outcomes, "skipped")
            /\ d_pc = "finally" =>
                  (d_reported.kind # NONE /\ d_reported.tally = d_tally)

\* a run over two targets cancelled after the first, whose download had failed
C2_Witness ==
    /\ d_pc = "finally" /\ d_loop_end = "break"
    /\ d_cancel_at.requested /\ d_cancel_at.between /\ d_cancel_at.done = 1
    /\ Len(d_targets) = 2
    /\ d_outcomes = <<"fail">>
    /\ d_reported = [kind |-> "interrupted", tally |-> [success |-> 0, fail |-> 1, skipped |-> 0]]


HasNoMarkedColumn(file) ==
    /\ file.header # NO_HEADER
    /\ MarkedColumn(file.header[1], APPROVAL_MARK) = 0
    /\ MarkedColumn(file.header[1], CERT_MARK) = 0

DownloadWorkerLoaded == d_pc \notin {"idle", "start"}

\* C12: for an allow-list file with neither marked column the filter loader
\* returns two empty sets and does not raise, and a download run that filters
\* on them has no target: nothing is handled and no fetch is made.
C12_NoMarkedColumnNoTarget ==
    (DownloadWorkerLoaded /\ d_args.use_filter /\ HasNoMarkedColumn(d_args.hosp)) =>
        /\ load_hospital_device_list(d_args.hosp) =
              [raised |-> FALSE, approval_numbers |-> {}, certification_numbers |-> {}]
        /\ d_targets = << >>
        /\ d_outcomes = << >>
        /\ d_tally = NO_TALLY
        /\ d_pc # "fetch"

\* such a run, over a table with a Listed row whose number the file's only
\* column holds, has ended with nothing counted
C12_Witness ==
    /\ d_pc = "finally" /\ d_args.use_filter /\ HasNoMarkedColumn(d_args.hosp)
    /\ \E j \in 1..Len(d_args.csv) :
          IsCandidate(d_args.csv[j]) /\ d_args.csv[j].approvalNumber = <<"A100">>
    /\ d_reported = [kind |-> "completed", tally |-> NO_TALLY]

\* the loop stands at a target that has a document id and whose destination
\* file exists, skip-existing being on
AtExistingTarget ==
    /\ d_pc \in {"check", "fetch"}
    /\ d_i <= Len(d_targets)
    /\ extract_doc_id_from_url(d_targets[d_i].pdfUrl) # EMPTY
    /\ d_args.skip_exist
    /\ FileName(d_targets[d_i]) \in d_files

SkipStep ==
    /\ AtExistingTarget => d_pc = "check"
    /\ (AtExistingTarget /\ d_is_running /\ d_i' # d_i) =>
          /\ d_i' = d_i + 1
          /\ d_pc' = "check"
          /\ d_tally' = [d_tally EXCEPT !.skipped = @ + 1]
          /\ d_outcomes' = Append(d_outcomes, "skipped")
          /\ d_files' = d_files

\* C13: when skip-existing is on and the destination file exists as a target
\* is handled, the skipped tally grows by one, the success and fail tallies
\* stay, no fetch is started for the target and no file is written.
C13_ExistingFileSkipped == [][SkipStep]_vars

\* two targets with one destination: the first was downloaded, the second
\* found its file and was skipped
C13_Witness ==
    /\ d_args.skip_exist
    /\ d_outcomes = <<"success", "skipped">>
    /\ d_tally = [success |-> 1, fail |-> 0, skipped |-> 1]

Attempts == CountOf(d_outcomes, "success") + CountOf(d_outcomes, "fail")

\* C14: the per-file delay is awaited after every attempted download, however
\* it ended, and never after a skip: the delays awaited are as many as the
\* attempts made (less the one pending while the delay runs), so whenever a
\* fetch is in flight every earlier fetch of the run has had its delay.
C14_DelayAfterEachAttempt ==
    /\ d_delays + (IF d_pc = "sleep" THEN 1 ELSE 0) = Attempts
    /\ d_pc = "fetch" => d_delays = Attempts

\* a second fetch is in flight, after a failed one and its delay
C14_Witness ==
    /\ d_pc = "fetch" /\ d_outcomes = <<"fail">> /\ d_delays = 1

\* the targets whose pdfUrl yields a document id
WithDocId(targets) ==
    {j \in 1..Len(targets) : extract_doc_id_from_url(targets[j].pdfUrl) # EMPTY}

\* C25: in a download run that is not cancelled, success + fail + skipped
\* equals the number of targets whose pdfUrl yields a document id: each
\* target handled so far stands in exactly one of the three counters if it
\* has an identifier and in none if it has not, for which no fetch is made.
C25_TalliesCountTargetsWithId ==
    /\ Len(d_outcomes) <= Len(d_targets)
    /\ \A j \in 1..Len(d_outcomes) :
          (d_outcomes[j] = "no_id") <=> (j \notin WithDocId(d_targets))
    /\ d_tally.success + d_tally.fail + d_tally.skipped =
          Cardinality(WithDocId(d_targets) \cap 1..Len(d_outcomes))
    /\ d_tally.success = CountOf(d_outcomes, "success")
    /\ d_tally.fail = CountOf(d_outcomes, "fail")
    /\ d_tally.skipped = CountOf(d_outcomes, "skipped")
    /\ d_pc \in {"fetch", "sleep"} => d_i \in WithDocId(d_targets)
    /\ (d_loop_end = "exhausted" /\ ~d_cancel_at.requested) =>
          /\ Len(d_outcomes) = Len(d_targets)
          /\ d_tally.success + d_tally.fail + d_tally.skipped =
                Cardinality(WithDocId(d_targets))

\* a run that no cancel request touched has handled a target without an
\* identifier and one with, and counts one
C25_Witness ==
    /\ d_pc = "finally" /\ d_loop_end = "exhausted" /\ ~d_cancel_at.requested
    /\ d_outcomes = <<"no_id", "fail">>
    /\ d_tally = [success |-> 0, fail |-> 1, skipped |-> 0]

DestinationStep ==
    \* a file appears at a destination only by a download counted Success
    /\ d_files' # d_files =>
          /\ d_pc = "fetch"
          /\ d_files' = d_files \cup {FileName(d_targets[d_i])}
          /\ d_tally'.success = d_tally.success + 1
    \* and a download counted Failed leaves the destinations as they were
    /\ (d_pc = "fetch" /\ d_tally'.fail = d_tally.fail + 1) => d_files' = d_files

\* C29: a download counted as Failed leaves no file at its destination: a
\* destination file exists only if it existed before the run or a download
\* of it was counted Success, so that skip-existing never skips a target
\* whose earlier attempt failed.
C29_FailedLeavesNoFile == [][DestinationStep]_vars

\* C22: every download run that was started ends with its success, skipped
\* and failed counts reported, whether it completed, was cancelled or hit an
\* error before or during the loop: when the worker reaches its end, a
\* report carrying the three tallies has been made.
C22_EveryRunReportsTallies ==
    d_pc = "finally" => (d_reported.kind # NONE /\ d_reported.tally = d_tally)

\* C18: a malformed date, a start date after the end date, a missing input
\* table or - filtering being enabled - a missing or unusable allow-list file
\* is rejected before a worker starts: a worker exists only for a valid date
\* range, respectively for an allow-list file that the filter loader can
\* read, so that no such failure arises inside a worker.
C18_RejectedBeforeWorkerStarts ==
    /\ s_workers > 0 => s_args.start <= s_args.end
    /\ d_workers > 0 =>
          (d_args.use_filter => ~load_hospital_device_list(d_args.hosp).raised)
    /\ (d_pc = "error" /\ d_args.use_filter) =>
          ~load_hospital_device_list(d_args.hosp).raised

\* ======================================================================
\* Properties of the two tabs side by side (checked under SpecApp)
\* ======================================================================
\* C3: each kind of task has at most one active worker, and while a worker
\* of a kind has not finished - also after a cancel request has cleared the
\* flag - the run button of that kind is disabled, so no second run starts.
C3_OneWorkerPerKind ==
    /\ s_workers <= 1
    /\ d_workers <= 1
    /\ (s_workers = 1) <=> (s_pc # "idle")
    /\ (d_workers = 1) <=> (d_pc # "idle")
    /\ s_pc # "idle" => s_run_button = "disabled"
    /\ d_pc # "idle" => d_run_button = "disabled"

\* both workers are still busy with a request after both flags were cleared
C3_Witness ==
    /\ s_workers = 1 /\ s_cancel_at.requested /\ ~s_is_running /\ s_pc = "enrich_fetch"
    /\ d_workers = 1 /\ d_cancel_at.requested /\ ~d_is_running /\ d_pc = "fetch"

\* what a step of the program does at a checkpoint and around a network call
CheckpointStep ==
    \* a request is started only from the checkpoint before it, the flag being set
    /\ (s_pc' = "fetch" /\ s_pc # "fetch") => (s_pc = "date_check" /\ s_is_running)
    /\ (s_pc' = "enrich_fetch" /\ s_pc # "enrich_fetch") =>
          (s_pc = "enrich_check" /\ s_is_running)
    /\ (d_pc' = "fetch" /\ d_pc # "fetch") => (d_pc = "check" /\ d_is_running)
    \* a checkpoint reached with the flag cleared stops the worker
    /\ (s_pc = "date_check" /\ s_i <= Len(s_dates) /\ ~s_is_running /\ s_pc' # s_pc) =>
          (s_pc' = "complete" /\ s_loop_end' = "break" /\ s_all_results' = s_all_results)
    /\ (s_pc = "enrich_check" /\ ~s_is_running /\ s_pc' # s_pc) =>
          (s_pc' = "sleep" /\ s_returned' = Append(s_returned, s_results))
    /\ (d_pc = "check" /\ d_i <= Len(d_targets) /\ ~d_is_running /\ d_pc' # d_pc) =>
          (d_pc' = "complete" /\ d_loop_end' = "break" /\ d_outcomes' = d_outcomes
           /\ d_files' = d_files)
    \* clearing the flag leaves the worker where it is
    /\ (s_is_running /\ ~s_is_running' /\ s_pc # "finally") => UNCHANGED <<s_pc, s_locals>>
    /\ (d_is_running /\ ~d_is_running' /\ d_pc # "finally") =>
          UNCHANGED <<d_pc, d_locals, d_files>>
    \* a request in flight ends by its own response, whatever the flag
    /\ (s_pc = "fetch" /\ s_pc' # s_pc) => s_pc' \in {"tables", "sleep"}
    /\ (s_pc = "enrich_fetch" /\ s_pc' # s_pc) =>
          (s_pc' = "enrich_sleep" /\ s_row' = s_row)
    /\ (d_pc = "fetch" /\ d_pc' # d_pc) =>
          (d_pc' = "sleep" /\ Len(d_outcomes') = Len(d_outcomes) + 1)

ScrapeTabReady ==
    /\ s_pc = "idle" /\ s_workers = 0
    /\ ~s_is_running /\ s_run_button = "normal" /\ s_cancel_button = "disabled"

DownloadTabReady ==
    /\ d_pc = "idle" /\ d_workers = 0
    /\ ~d_is_running /\ d_run_button = "normal" /\ d_cancel_button = "disabled"

\* C27: every collection or download run that was started eventually ends
\* with the running flag false, the run button enabled and the cancel button
\* disabled - whether it completed, was cancelled or raised an error - every
\* network call returning and every dialog being dismissed.
C27_EveryRunEnds ==
    /\ (s_pc # "idle") ~> ScrapeTabReady
    /\ (d_pc # "idle") ~> DownloadTabReady

\* a download run that raised an error stands before the finally branch of
\* its worker, after a download of an earlier run had written a file
C27_Witness ==
    /\ d_pc = "finally" /\ d_reported.kind = NONE /\ d_files # {}

\* C28: a run is reported as interrupted - and, for collection, its save
\* asked for and the hand-off of the output path skipped - only if
\* cancellation kept a date or a target from being processed; a run in which
\* every date or target was processed is reported as completed, also when
\* the cancel request came after the last one was handled.
C28_InterruptedOnlyIfCutShort ==
    /\ s_reported = "interrupted" => ScrapeEndedEarly
    /\ s_answer # NONE => ScrapeEndedEarly
    /\ (s_pc = "finally" /\ s_loop_end = "exhausted" /\ ~s_cut_short
        /\ s_all_results # << >>) => s_handoff
    /\ d_reported.kind = "interrupted" => d_loop_end = "break"

C5_CooperativeCancellation == [][CheckpointStep]_vars

\* the flag was cleared inside a date and a checkpoint of the listing fetcher
\* stopped it; the download loop was stopped at its checkpoint
C5_Witness ==
    /\ s_cancel_at.requested /\ ~s_cancel_at.between /\ s_cut_short
    /\ d_cancel_at.requested /\ d_loop_end = "break"


\* ======================================================================
\* Properties of the target filter (checked under SpecFilter)
\* ======================================================================
AllCellsPresent(rows) ==
    \A j \in 1..Len(rows) :
        rows[j].approvalNumber # PY_NONE /\ rows[j].certificationNumber # PY_NONE

\* C9, as stated: a row is a target iff its section is Listed, its pdfUrl is
\* non-empty and - filtering being enabled - its approvalNumber is non-empty
\* and in the approval set or its certificationNumber is non-empty and in the
\* certification set.
C9_TargetsByStoredNumbers ==
    (f_done /\ AllCellsPresent(f_in.rows)) =>
        LET IsTarget(r) ==
                /\ r.section = SECTION_LISTED
                /\ r.pdfUrl # EMPTY
                /\ \/ ~f_in.use_filter
                   \/ (r.approvalNumber # EMPTY /\ r.approvalNumber \in f_in.approvals)
                   \/ (r.certificationNumber # EMPTY
                       /\ r.certificationNumber \in f_in.certs)
        IN  ~f_out.raised /\ f_out.targets = SelectSeq(f_in.rows, IsTarget)

\* C9, amended: the same, the two numbers being compared after surrounding
\* whitespace is stripped from them; and when filtering is enabled and a
\* Listed row with a pdfUrl lacks one of the two number cells, the load
\* raises and yields no target list.
C9_TargetsByTrimmedNumbers ==
    f_done =>
        LET an(r) == Strip(r.approvalNumber, WHITESPACE)
            cn(r) == Strip(r.certificationNumber, WHITESPACE)
            IsTarget(r) ==
                /\ r.section = SECTION_LISTED
                /\ r.pdfUrl # EMPTY
                /\ \/ ~f_in.use_filter
                   \/ (an(r) # EMPTY /\ an(r) \in f_in.approvals)
                   \/ (cn(r) # EMPTY /\ cn(r) \in f_in.certs)
            LacksCell(r) ==
                /\ r.section = SECTION_LISTED
                /\ r.pdfUrl # EMPTY
                /\ (r.approvalNumber = PY_NONE \/ r.certificationNumber = PY_NONE)
        IN  IF f_in.use_filter /\ \E j \in 1..Len(f_in.rows) : LacksCell(f_in.rows[j])
            THEN f_out.raised
            ELSE ~f_out.raised /\ f_out.targets = SelectSeq(f_in.rows, IsTarget)

\* with filtering on, of two rows the one whose stored approval number has a
\* leading blank is kept and the one with no listed number is dropped
C9_Witness ==
    /\ f_done /\ f_in.use_filter /\ f_in.approvals = {<<"A100">>}
    /\ Len(f_in.rows) = 2
    /\ AllCellsPresent(f_in.rows)
    /\ f_in.rows[1].approvalNumber = EMPTY /\ f_in.rows[1].certificationNumber = <<"C200">>
    /\ f_in.certs = {} /\ f_in.rows[1].section = SECTION_LISTED /\ f_in.rows[1].pdfUrl # EMPTY
    /\ f_in.rows[2].approvalNumber = <<" ", "A100">>
    /\ f_out.targets = <<f_in.rows[2]>>

\* ======================================================================
\* Properties of the filter loader (checked under SpecLoader)
\* ======================================================================
MarkedColumns(fieldnames, mark) ==
    {j \in 1..Len(fieldnames) : Contains(fieldnames[j], <<mark>>)}

\* C10: when several header names hold the approval-number marker
\* (respectively the certification-number marker), the values come from the
\* first such column in header order.
C10_FirstMarkedColumnWins ==
    (f_done /\ ~f_out.raised) =>
        LET approval_cols == MarkedColumns(f_in.header[1], APPROVAL_MARK)
            cert_cols     == MarkedColumns(f_in.header[1], CERT_MARK)
        IN  /\ Cardinality(approval_cols) > 1 =>
                  f_out.approval_numbers = ColumnValues(f_in.rows, SetMin(approval_cols))
            /\ Cardinality(cert_cols) > 1 =>
                  f_out.certification_numbers = ColumnValues(f_in.rows, SetMin(cert_cols))

\* C11: both sets the filter loader returns hold only trimmed, non-empty
\* values: neither holds the empty string nor a value with a leading or
\* trailing blank, also when a cell holds only blanks.
C11_SetsTrimmedNonEmpty ==
    (f_done /\ ~f_out.raised) =>
        \A v \in f_out.approval_numbers \cup f_out.certification_numbers :
            v # EMPTY /\ Strip(v, WHITESPACE) = v


\* ======================================================================
\* Properties of the filename derivation (checked under SpecFileName)
\* ======================================================================
\* C15: whatever characters the productName of a target holds, the
\* destination filename made for it holds none of the characters
\* \ / : * ? " < > |.
C15_FileNameHasNoInvalidChar ==
    f_done => \A j \in 1..Len(f_out) : f_out[j] \notin INVALID_CHARS


\* ======================================================================
\* Properties of the URL deriver (checked under SpecUrl)
\* ======================================================================
\* the address with the base address taken off its front, if it starts with it
StripBasePrefix(url) ==
    IF IsPrefix(app_settings.detail_base_url, url)
    THEN Drop(url, Len(app_settings.detail_base_url))
    ELSE url

\* the segments that remain after the base prefix and the leading and
\* trailing slashes are taken off
SegmentsAfterBase(url) == Split(Strip(StripBasePrefix(url), {"/"}), "/")

FourSegmentShape(url) ==
    LET seg == SegmentsAfterBase(url)
    IN  Len(seg) >= 4 /\ seg[1] = <<"ygo">> /\ seg[2] = <<"pack">>

\* C19: detailToPdf returns base + "/ygo/pdf/" + segment[2] + "_" +
\* segment[3] + "/" exactly when, the base prefix and the leading and
\* trailing slashes taken off the detail address, at least 4 segments remain
\* of which the first two are "ygo" and "pack"; for every other address it
\* returns the empty string.
C19_PdfUrlOnlyForFourSegmentShape ==
    f_done =>
        LET seg == SegmentsAfterBase(f_in)
        IN  f_out.pdf =
               IF FourSegmentShape(f_in)
               THEN app_settings.detail_base_url \o <<"/", "ygo", "/", "pdf", "/">>
                    \o seg[3] \o <<"_">> \o seg[4] \o <<"/">>
               ELSE EMPTY

\* segment[3] as detailToPdf took it: what stands after the "_" of the last
\* segment of the PDF address (no segment of an input holds a "_")
DocIdOfPdf(pdf) ==
    LET made == Split(Strip(Drop(pdf, Len(app_settings.detail_base_url)), {"/"}), "/")
        last == made[Len(made)]
        j    == CHOOSE k \in 1..Len(last) : last[k] = "_"
    IN  Drop(last, j)

\* C20: detailToBody returns the detail address without its trailing
\* slashes + "/" + segment[3] + "?view=body" exactly when the address matches
\* the decomposition of detailToPdf, segment[3] being the one detailToPdf
\* puts into its result, and the empty string for every other address; for
\* every address detailToBody is non-empty iff detailToPdf is.
C20_BodyUrlFollowsPdfUrl ==
    f_done =>
        /\ (f_out.body # EMPTY) <=> (f_out.pdf # EMPTY)
        /\ f_out.body =
              IF f_out.pdf # EMPTY
              THEN RStrip(f_in, {"/"}) \o <<"/">> \o DocIdOfPdf(f_out.pdf)
                   \o <<"?view=body">>
              ELSE EMPTY

\* the address base/ygo/pack/a/pack/ gave base/ygo/pack/a/pack/pack?view=body
C20_Witness ==
    /\ f_done
    /\ f_in = app_settings.detail_base_url
               \o <<"/", "ygo", "/", "pack", "/", "a", "/", "pack", "/">>
    /\ f_out.body = app_settings.detail_base_url
               \o <<"/", "ygo", "/", "pack", "/", "a", "/", "pack", "/", "pack",
                    "?view=body">>
    /\ f_out.pdf # EMPTY


\* ======================================================================
\* Properties of a run beside the settings tab (checked under SpecLive)
\* ======================================================================
\* C21: the configuration a run uses is the value snapshot taken when the
\* run starts: every listing URL base, detail URL base and per-date delay
\* the worker reads is the one the settings held when the run was started,
\* whatever is saved or reset while the run is active.
C21_RunUsesStartSnapshot ==
    s_pc # "idle" =>
        /\ s_config.used.base_url \subseteq {s_config.start.base_url}
        /\ s_config.used.detail_base_url \subseteq {s_config.start.detail_base_url}
        /\ s_config.used.scrape_wait_time \subseteq {s_config.start.scrape_wait_time}

\* ======================================================================
\* Properties of the settings (checked under SpecSettings)
\* ======================================================================
WithinRange(wait) ==
    wait.kind = "num" /\ MIN_WAIT_TIME <= wait.v /\ wait.v <= MAX_WAIT_TIME

DelaysWithinRange(settings) ==
    /\ WithinRange(settings.scrape_wait_time)              \* per date, line 561
    /\ WithinRange(settings.default_wait_time)             \* per download, line 725
    /\ WithinRange(DEFAULT_SETTINGS.approval_number_wait_time)   \* line 254

\* C23: after any sequence of settings load, save and reset operations the
\* per-date, per-enrichment-call and per-download delays lie within 0 to 10
\* seconds, in memory and in the settings file.
C23_DelaysWithinRange ==
    /\ DelaysWithinRange(app_settings)
    /\ cfg_file.exists => DelaysWithinRange(cfg_file.data)

====
